---- MODULE Spec2Model ----
(***************************************************************************)
(* Model of BetterInput (input.py): a raw-keystroke single line editor     *)
(* with a history shared by consecutive getLine sessions.                  *)
(*                                                                         *)
(* Characters are modelled by their code points (ord), strings by          *)
(* sequences of code points.  Python indices are kept 0-based: the entry   *)
(* lines[i] of the source is lines[i + 1] here.                            *)
(***************************************************************************)
EXTENDS Integers, Sequences, FiniteSets, TLC

\* ---------------------------------------------------------------- bounds
\* most sessions (getLine calls) on the one Input object
MaxSessions == 2
\* longest line the user types
MaxLen == 2
\* most keys in a stream given to the decoder alone
MaxKeys == 3
\* ------------------------------------------------------- key constants
ESCAPE == 27
BACKSPACE == 127
INTERRUPT == 3
EOF == 4
\* the "\r" literal the read loop compares with
CR == 13
\* "\n", an ordinary unit for the decoder
LF == 10

\* CLEAR_LINE = "\x1B[K"
CLEAR_LINE == <<27, 91, 75>>
UP == <<27, 91, 65>>
DOWN == <<27, 91, 66>>
RIGHT == <<27, 91, 67>>
LEFT == <<27, 91, 68>>
DELETE == <<27, 91, 51, 126>>
arrowKeys == {UP, DOWN, RIGHT, LEFT}

\* ------------------------------------------------- the user's raw units
\* ordinary characters the user types: "f", "o" and "\n"
Printables == {102, 111, LF}
\* what the user sends as one unit
FirstUnits == Printables \cup {BACKSPACE, INTERRUPT, EOF, CR}
\* what the user sends starting with an escape introducer: the five keys the
\* reader knows, Home (ESC [ H), and three streams in which ESC is followed by
\* a unit no escape sequence continues with: ESC Ctrl-C Enter, Alt-f Enter
\* (ESC f Enter), Alt-f Ctrl-C
EscSent == {<<27, 91, 65>>, <<27, 91, 66>>, <<27, 91, 67>>, <<27, 91, 68>>,
            <<27, 91, 51, 126>>, <<27, 91, 72>>,
            <<27, 3, 13>>, <<27, 102, 13>>, <<27, 102, 3>>}
Sent == {<<u>> : u \in FirstUnits} \cup EscSent
\* everything the user may have sent since the last key ended
SentPrefixes == UNION {{SubSeq(s, 1, n) : n \in 1..Len(s)} : s \in Sent}
\* every unit that occurs in Sent
AllUnits == FirstUnits \cup {27, 91, 65, 66, 67, 68, 51, 126, 72, 102, 3, 13}

\* ------------------------------------------------------ pure functions
\* re.compile(r"^\x1B(?:[@-Z\\-_]|\[[0-?]*[ -/]*[@-~])$") without the "$"
\* end-of-string subtlety: the whole of s is one escape sequence
EscapeSeqBody(s) ==
    /\ Len(s) >= 2
    /\ s[1] = ESCAPE
    /\ \/ Len(s) = 2 /\ s[2] \in ((64..90) \cup (92..95))
       \/ /\ Len(s) >= 3
          /\ s[2] = 91
          /\ s[Len(s)] \in 64..126
          /\ \E p \in 2..(Len(s) - 1) :
                /\ \A i \in 3..p : s[i] \in 48..63
                /\ \A i \in (p + 1)..(Len(s) - 1) : s[i] \in 32..47

\* ESCAPE_SEQ.match(s): Python's "$" also matches before one trailing "\n"
ESCAPE_SEQ(s) ==
    \/ EscapeSeqBody(s)
    \/ Len(s) >= 1 /\ s[Len(s)] = LF /\ EscapeSeqBody(SubSeq(s, 1, Len(s) - 1))

\* _bound(val, lowerBound, upperBound): max with the lower, then min with the upper
_bound(val, lowerBound, upperBound) ==
    LET v1 == IF val > lowerBound THEN val ELSE lowerBound
    IN  IF v1 < upperBound THEN v1 ELSE upperBound

\* str(n) of an f-string, n >= 0: the decimal digits as characters
RECURSIVE Decimal(_)
Decimal(n) == IF n < 10 THEN <<48 + n>> ELSE Append(Decimal(n \div 10), 48 + (n % 10))

\* variant of _moveCursorRight: a move of 0 columns is written as a move left
moveCursorRight_ZeroLeft(distRight) ==
    IF distRight > 0 THEN <<27, 91>> \o Decimal(distRight) \o <<67>>
    ELSE <<27, 91>> \o Decimal(0 - distRight) \o <<68>>

\* _moveCursorRight(distRight): the characters it prints
_moveCursorRight(distRight) ==
    IF distRight > 0 THEN <<27, 91>> \o Decimal(distRight) \o <<67>>
    ELSE IF distRight < 0 THEN <<27, 91>> \o Decimal(0 - distRight) \o <<68>>
    ELSE <<>>

\* _resetLine(s): the characters it prints
_resetLine(s) == <<CR>> \o s \o CLEAR_LINE

\* the prompt getLine is called with ("> ", as main does)
prompt == <<62, 32>>

\* ------------------------------------------------------- the terminal
\* the number the digit characters of s spell
RECURSIVE DecimalValue(_)
DecimalValue(s) ==
    IF s = <<>> THEN 0
    ELSE 10 * DecimalValue(SubSeq(s, 1, Len(s) - 1)) + (s[Len(s)] - 48)

\* how many digit characters s starts with
RECURSIVE DigitsAhead(_)
DigitsAhead(s) ==
    IF s # <<>> /\ s[1] \in 48..57 THEN 1 + DigitsAhead(Tail(s)) ELSE 0

\* the row t with character b put at column c (columns from 0)
PutChar(t, c, b) ==
    [i \in 1..(IF c + 1 > Len(t) THEN c + 1 ELSE Len(t)) |->
        IF i = c + 1 THEN b ELSE IF i <= Len(t) THEN t[i] ELSE 32]

\* the terminal's current row and cursor column after it receives bytes:
\* carriage return, line feed (a new empty row, output post-processing is on
\* whenever the program prints), ESC [ K, ESC [ n C, ESC [ n D, and text
RECURSIVE Terminal(_, _, _)
Terminal(t, c, bytes) ==
    IF bytes = <<>> THEN [screen |-> t, col |-> c]
    ELSE LET b == Head(bytes)
             rest == Tail(bytes)
         IN  IF b = CR THEN Terminal(t, 0, rest)
             ELSE IF b = LF THEN Terminal(<<>>, 0, rest)
             ELSE IF b = ESCAPE /\ Len(rest) >= 2 /\ rest[1] = 91
                     /\ Len(rest) >= 2 + DigitsAhead(Tail(rest))
             THEN LET nd == DigitsAhead(Tail(rest))
                      n == IF nd = 0 THEN 1 ELSE DecimalValue(SubSeq(rest, 2, 1 + nd))
                      final == rest[2 + nd]
                      after == SubSeq(rest, 3 + nd, Len(rest))
                  IN  IF final = 75 THEN Terminal(SubSeq(t, 1, c), c, after)
                      ELSE IF final = 67 THEN Terminal(t, c + n, after)
                      ELSE IF final = 68 THEN Terminal(t, IF c > n THEN c - n ELSE 0, after)
                      ELSE Terminal(t, c, after)
             ELSE Terminal(PutChar(t, c, b), c + 1, rest)

\* hex(n) without its "0x" prefix, as a sequence of digit values
RECURSIVE HexDigits(_)
HexDigits(n) == IF n < 16 THEN <<n>> ELSE Append(HexDigits(n \div 16), n % 16)

\* ' '.join(hex(ord(c)) for c in s): one token per character
HexTokens(s) == [i \in 1..Len(s) |-> HexDigits(s[i])]

\* ------------------------------------------------------------- state
VARIABLES
    lines,          \* Input.lines, the history shared by all readers
    line,           \* _SingleLineReader.line
    lineIdx,        \* _SingleLineReader.lineIdx (0-based)
    charIdx,        \* _SingleLineReader.charIdx
    used,           \* _SingleLineReader.used
    k,              \* the key being accumulated by _getKey / last returned key
    pc,             \* "idle": no read() running; "call": read() is about to call _getChar
    termMode,       \* the terminal's mode
    modeAtStart,    \* the terminal's mode when the running session started
    outcome,        \* how the last finished read() ended
    retval,         \* the line the last returning read() returned
    excMsg,         \* the hex tokens in the message of the last exception read() raised
    excText,        \* the fixed text in the message of that exception
    written,        \* what the last step printed
    screen,         \* the terminal: the text of the row the cursor is in
    col,            \* the terminal: the cursor's column
    away,           \* history: only ArrowUp/ArrowDown since an ArrowUp at the newest index
    inProgress,     \* history: the buffer when that ArrowUp was pressed
    fresh,          \* history: _getKey has returned no key to this session yet
    keysIn,         \* decoder alone: the keys whose units make up the input stream
    stream,         \* decoder alone: the units not yet read
    decoded         \* decoder alone: the keys _getKey has returned

reader == <<line, lineIdx, charIdx, used>>
term == <<termMode, modeAtStart>>
result == <<outcome, retval, excMsg, excText>>
tty == <<written, screen, col>>
hist == <<away, inProgress>>
dec == <<keysIn, stream, decoded>>
vars == <<lines, line, lineIdx, charIdx, used, k, pc, termMode,
          modeAtStart, outcome, retval, excMsg, excText, written, screen, col,
          away, inProgress, fresh, keysIn, stream, decoded>>

Init ==
    /\ lines = <<>>
    /\ line = <<>>
    /\ lineIdx = 0
    /\ charIdx = 0
    /\ used = FALSE
    /\ k = <<>>
    /\ pc = "idle"
    /\ termMode \in {"cooked", "cbreak"}
    /\ modeAtStart = termMode
    /\ outcome = "none"
    /\ retval = <<>>
    /\ excMsg = <<>>
    /\ excText = ""
    /\ written = <<>>
    /\ screen = <<>>
    /\ col = 0
    /\ away = FALSE
    /\ inProgress = <<>>
    /\ fresh = FALSE
    /\ keysIn = <<>>
    /\ stream = <<>>
    /\ decoded = <<>>

\* ------------------------------------------------- _SingleLineReader
\* print(bytes, end=""): the terminal receives bytes
Emit(bytes) ==
    /\ written' = bytes
    /\ LET t == Terminal(screen, col, bytes)
       IN  screen' = t.screen /\ col' = t.col

\* _resetLineAndCursor(), for the new line and cursor
_resetLineAndCursor ==
    Emit(_resetLine(prompt \o line') \o _moveCursorRight(charIdx' - Len(line')))

\* variant of __init__: the reader starts a list of its own
init_OwnList ==
    /\ line' = <<>>
    /\ lines' = <<<<>>>>
    /\ lineIdx' = 0
    /\ charIdx' = 0

\* __init__(pastLines, prompt, debug): the new reader appends its empty line
\* to the shared list and views it
__init__ ==
    /\ line' = <<>>
    /\ lines' = Append(lines, <<>>)
    /\ lineIdx' = Len(lines') - 1
    /\ charIdx' = 0

\* variant of StoreLast: the line is stored in the entry the reader views
StoreLast_AtActive(v) == lines' = [lines EXCEPT ![lineIdx + 1] = v]

\* self.lines[-1] = self.line, for the new value v of self.line
StoreLast(v) == lines' = [lines EXCEPT ![Len(lines)] = v]

\* variant of moveLineDown: the index wraps round instead of stopping at the ends
moveLineDown_Wrap(distDown) ==
    /\ lineIdx' = (lineIdx + distDown) % Len(lines)
    /\ line' = lines[lineIdx' + 1]
    /\ charIdx' = Len(line')
    /\ _resetLineAndCursor

\* variant of moveLineDown: the cursor keeps its column where the new line allows
moveLineDown_KeepColumn(distDown) ==
    /\ lineIdx' = _bound(lineIdx + distDown, 0, Len(lines) - 1)
    /\ line' = lines[lineIdx' + 1]
    /\ charIdx' = _bound(charIdx, 0, Len(line'))
    /\ _resetLineAndCursor

\* variant of moveLineDown: the index has no lower bound, a negative index
\* counts from the end of the list
moveLineDown_NoFloor(distDown) ==
    /\ lineIdx' = IF lineIdx + distDown > Len(lines) - 1
                  THEN Len(lines) - 1 ELSE lineIdx + distDown
    /\ line' = lines[(lineIdx' % Len(lines)) + 1]
    /\ charIdx' = Len(line')
    /\ _resetLineAndCursor

\* moveLineDown(distDown)
moveLineDown(distDown) ==
    /\ lineIdx' = _bound(lineIdx + distDown, 0, Len(lines) - 1)
    /\ line' = lines[lineIdx' + 1]
    /\ charIdx' = Len(line')
    /\ _resetLineAndCursor

\* variant of moveCharRight: the new offset is not bounded
moveCharRight_Unbounded(distRight) ==
    /\ charIdx' = charIdx + distRight
    /\ Emit(_moveCursorRight(charIdx' - charIdx))
    /\ UNCHANGED <<line, lineIdx>>

\* moveCharRight(distRight)
moveCharRight(distRight) ==
    /\ charIdx' = _bound(charIdx + distRight, 0, Len(line))
    /\ Emit(_moveCursorRight(charIdx' - charIdx))
    /\ UNCHANGED <<line, lineIdx>>

\* variant of doBackspace: the character at the cursor is removed
doBackspace_AtCursor ==
    /\ IF charIdx > 0
       THEN /\ line' = SubSeq(line, 1, charIdx) \o SubSeq(line, charIdx + 2, Len(line))
            /\ charIdx' = charIdx - 1
            /\ _resetLineAndCursor
       ELSE UNCHANGED <<line, charIdx>> /\ Emit(<<>>)
    /\ UNCHANGED lineIdx

\* doBackspace()
doBackspace ==
    /\ IF charIdx > 0
       THEN /\ line' = SubSeq(line, 1, charIdx - 1) \o SubSeq(line, charIdx + 1, Len(line))
            /\ charIdx' = charIdx - 1
            /\ _resetLineAndCursor
       ELSE UNCHANGED <<line, charIdx>> /\ Emit(<<>>)
    /\ UNCHANGED lineIdx

\* doDelete()
doDelete ==
    /\ IF charIdx < Len(line)
       THEN /\ line' = SubSeq(line, 1, charIdx) \o SubSeq(line, charIdx + 2, Len(line))
            /\ UNCHANGED charIdx
            /\ _resetLineAndCursor
       ELSE UNCHANGED <<line, charIdx>> /\ Emit(<<>>)
    /\ UNCHANGED lineIdx

\* insertChar(key), key a one-character string
insertChar(key) ==
    /\ line' = SubSeq(line, 1, charIdx) \o key \o SubSeq(line, charIdx + 1, Len(line))
    /\ charIdx' = charIdx + 1
    /\ _resetLineAndCursor
    /\ UNCHANGED lineIdx

\* ------------------------------------------------------------ decoder
\* _getKey is inside its while loop: k starts with ESC and is no full sequence yet
InEscLoop(s) == s # <<>> /\ s[1] = ESCAPE /\ ~ESCAPE_SEQ(s)

\* k after one more unit u: k = _getChar() at a new key, k += _getChar() in the loop
NextK(u) == IF InEscLoop(k) THEN Append(k, u) ELSE <<u>>

\* variant of Returned: an escape sequence is taken to be three units long
Returned_ThreeUnits(s) == s[1] # ESCAPE \/ Len(s) = 3

\* _getKey returns s: the first unit is no ESC, or the loop condition fails
Returned(s) == s[1] # ESCAPE \/ ESCAPE_SEQ(s)

\* the user may send u next: it continues something of Sent
MaySend(u) == NextK(u) \in SentPrefixes

\* variant of _getChar: the terminal is left raw
getChar_NoRestore(u) ==
    /\ pc = "call"
    /\ k' = NextK(u)
    /\ MaySend(u)
    /\ termMode' = "raw"
    /\ UNCHANGED <<modeAtStart, used, dec>>

\* _getChar() called by _getKey: the mode is saved, the terminal set raw, the
\* read delivers u, finally restores the saved mode, and _getKey takes the unit
_getChar(u) ==
    /\ pc = "call"
    /\ k' = NextK(u)
    /\ MaySend(u)
    /\ LET old_settings == termMode
       IN  termMode' = old_settings
    /\ UNCHANGED <<modeAtStart, used, dec>>

\* the while loop of _getKey goes round: the sequence is not complete
EscapeLoop ==
    \E u \in AllUnits :
        /\ u = ESCAPE \/ InEscLoop(k)
        /\ _getChar(u)
        /\ ~Returned(k')
        /\ pc' = "call"
        /\ Emit(<<>>)
        /\ UNCHANGED <<lines, line, lineIdx, charIdx, result, hist, fresh>>

\* --------------------------------------------------- Input.getLine
\* getLine(prompt): a new reader on the shared history, then read() up to its
\* first _getKey (_use marks the reader used, the prompt is printed)
getLine ==
    /\ pc = "idle"
    /\ Len(lines) < MaxSessions
    /\ __init__
    /\ used' = TRUE
    /\ k' = <<>>
    /\ pc' = "call"
    /\ modeAtStart' = termMode
    /\ away' = FALSE
    /\ inProgress' = <<>>
    /\ fresh' = TRUE
    /\ Emit(prompt)
    /\ UNCHANGED <<termMode, result, dec>>

\* variant of readAgain: the used flag is not looked at, the loop starts again
readAgain_Restart ==
    /\ pc = "idle"
    /\ used
    /\ k' = <<>>
    /\ pc' = "call"
    /\ Emit(prompt)
    /\ UNCHANGED <<lines, reader, term, result, hist, fresh, dec>>

\* read() called once more on the reader whose read() has ended: _use() raises
\* Exception("using line reader multiple times") before anything else is done
readAgain ==
    /\ pc = "idle"
    /\ used
    /\ outcome' = "Exception"
    /\ excMsg' = <<>>
    /\ excText' = "using line reader multiple times"
    /\ Emit(<<>>)
    /\ UNCHANGED <<lines, reader, k, pc, term, retval, hist, fresh, dec>>

\* ------------------------------------- read(): one pass of the key loop
\* variant of KeyEnter: the line is returned without being stored
KeyEnter_NoStore ==
    /\ _getChar(CR)
    /\ k' = <<CR>>
    /\ outcome' = "return"
    /\ retval' = line
    /\ Emit(<<LF>>)
    /\ pc' = "idle"
    /\ fresh' = FALSE
    /\ away' = FALSE
    /\ inProgress' = <<>>
    /\ UNCHANGED <<lines, line, lineIdx, charIdx, excMsg, excText>>

\* k == "\r": the loop ends, the line is stored in the last entry and returned
KeyEnter ==
    /\ _getChar(CR)
    /\ k' = <<CR>>
    /\ StoreLast(line)
    /\ outcome' = "return"
    /\ retval' = line
    /\ Emit(<<LF>>)
    /\ pc' = "idle"
    /\ fresh' = FALSE
    /\ away' = FALSE
    /\ inProgress' = <<>>
    /\ UNCHANGED <<line, lineIdx, charIdx, excMsg, excText>>

\* k == UP
KeyUp ==
    /\ _getChar(65)
    /\ k' = UP
    /\ moveLineDown(-1)
    /\ pc' = "call"
    /\ fresh' = FALSE
    /\ IF lineIdx = Len(lines) - 1
       THEN away' = TRUE /\ inProgress' = line
       ELSE UNCHANGED hist
    /\ UNCHANGED <<lines, result>>

\* k == DOWN
KeyDown ==
    /\ _getChar(66)
    /\ k' = DOWN
    /\ moveLineDown(1)
    /\ pc' = "call"
    /\ fresh' = FALSE
    /\ UNCHANGED <<lines, result, hist>>

\* k == LEFT
KeyLeft ==
    /\ _getChar(68)
    /\ k' = LEFT
    /\ moveCharRight(-1)
    /\ pc' = "call"
    /\ fresh' = FALSE
    /\ away' = FALSE
    /\ inProgress' = <<>>
    /\ UNCHANGED <<lines, result>>

\* k == RIGHT
KeyRight ==
    /\ _getChar(67)
    /\ k' = RIGHT
    /\ moveCharRight(1)
    /\ pc' = "call"
    /\ fresh' = FALSE
    /\ away' = FALSE
    /\ inProgress' = <<>>
    /\ UNCHANGED <<lines, result>>

\* k == BACKSPACE
KeyBackspace ==
    /\ _getChar(BACKSPACE)
    /\ k' = <<BACKSPACE>>
    /\ doBackspace
    /\ StoreLast(line')
    /\ pc' = "call"
    /\ fresh' = FALSE
    /\ away' = FALSE
    /\ inProgress' = <<>>
    /\ UNCHANGED result

\* variant of KeyDelete: the edited line is not stored
KeyDelete_NoStore ==
    /\ _getChar(126)
    /\ k' = DELETE
    /\ doDelete
    /\ pc' = "call"
    /\ fresh' = FALSE
    /\ away' = FALSE
    /\ inProgress' = <<>>
    /\ UNCHANGED <<lines, result>>

\* k == DELETE
KeyDelete ==
    /\ _getChar(126)
    /\ k' = DELETE
    /\ doDelete
    /\ StoreLast(line')
    /\ pc' = "call"
    /\ fresh' = FALSE
    /\ away' = FALSE
    /\ inProgress' = <<>>
    /\ UNCHANGED result

\* variant of KeyInterrupt: the cancelled session's entry is emptied
KeyInterrupt_Discard ==
    /\ _getChar(INTERRUPT)
    /\ k' = <<INTERRUPT>>
    /\ outcome' = "KeyboardInterrupt"
    /\ excMsg' = <<>>
    /\ excText' = ""
    /\ Emit(<<>>)
    /\ pc' = "idle"
    /\ fresh' = FALSE
    /\ away' = FALSE
    /\ inProgress' = <<>>
    /\ lines' = [lines EXCEPT ![Len(lines)] = <<>>]
    /\ UNCHANGED <<line, lineIdx, charIdx, retval>>

\* k == INTERRUPT: raise KeyboardInterrupt()
KeyInterrupt ==
    /\ _getChar(INTERRUPT)
    /\ k' = <<INTERRUPT>>
    /\ outcome' = "KeyboardInterrupt"
    /\ excMsg' = <<>>
    /\ excText' = ""
    /\ Emit(<<>>)
    /\ pc' = "idle"
    /\ fresh' = FALSE
    /\ away' = FALSE
    /\ inProgress' = <<>>
    /\ UNCHANGED <<lines, line, lineIdx, charIdx, retval>>

\* variant of KeyEOF: end of input is raised as an interrupt
KeyEOF_AsInterrupt ==
    /\ _getChar(EOF)
    /\ k' = <<EOF>>
    /\ outcome' = "KeyboardInterrupt"
    /\ excMsg' = <<>>
    /\ excText' = ""
    /\ Emit(<<>>)
    /\ pc' = "idle"
    /\ fresh' = FALSE
    /\ away' = FALSE
    /\ inProgress' = <<>>
    /\ UNCHANGED <<lines, line, lineIdx, charIdx, retval>>

\* k == EOF: raise EOFError()
KeyEOF ==
    /\ _getChar(EOF)
    /\ k' = <<EOF>>
    /\ outcome' = "EOFError"
    /\ excMsg' = <<>>
    /\ excText' = ""
    /\ Emit(<<>>)
    /\ pc' = "idle"
    /\ fresh' = FALSE
    /\ away' = FALSE
    /\ inProgress' = <<>>
    /\ UNCHANGED <<lines, line, lineIdx, charIdx, retval>>

\* k[0] == ESCAPE, k none of the keys above: raise Exception("unknown ANSI escape: ...")
KeyUnknownEscape ==
    /\ InEscLoop(k)
    /\ \E u \in AllUnits : _getChar(u) /\ Returned(k')
    /\ k'[1] = ESCAPE
    /\ k' \notin arrowKeys \cup {DELETE}
    /\ outcome' = "Exception"
    /\ excMsg' = HexTokens(k')
    /\ excText' = "unknown ANSI escape: "
    /\ Emit(<<>>)
    /\ pc' = "idle"
    /\ fresh' = FALSE
    /\ away' = FALSE
    /\ inProgress' = <<>>
    /\ UNCHANGED <<lines, line, lineIdx, charIdx, retval>>

\* variant of KeyPrintable: the edited line is not stored until Enter
KeyPrintable_NoStore ==
    /\ Len(line) < MaxLen
    /\ \E u \in AllUnits : _getChar(u) /\ Len(k') = 1 /\ u \notin {CR, BACKSPACE, INTERRUPT, EOF, ESCAPE}
    /\ insertChar(k')
    /\ pc' = "call"
    /\ fresh' = FALSE
    /\ away' = FALSE
    /\ inProgress' = <<>>
    /\ UNCHANGED <<lines, result>>

\* any other k: insertChar(k)
KeyPrintable ==
    /\ Len(line) < MaxLen
    /\ \E u \in AllUnits : _getChar(u) /\ Len(k') = 1 /\ u \notin {CR, BACKSPACE, INTERRUPT, EOF, ESCAPE}
    /\ insertChar(k')
    /\ StoreLast(line')
    /\ pc' = "call"
    /\ fresh' = FALSE
    /\ away' = FALSE
    /\ inProgress' = <<>>
    /\ UNCHANGED result

Next ==
    \/ getLine
    \/ readAgain
    \/ EscapeLoop
    \/ KeyEnter
    \/ KeyUp
    \/ KeyDown
    \/ KeyLeft
    \/ KeyRight
    \/ KeyBackspace
    \/ KeyDelete
    \/ KeyInterrupt
    \/ KeyEOF
    \/ KeyUnknownEscape
    \/ KeyPrintable

Spec == Init /\ [][Next]_vars

\* ------------------------------------------------- the decoder alone
\* the keys the reader knows: ordinary characters (among them "[", "A" and
\* "~", which also occur inside escape sequences), backspace, enter, the four
\* arrows and delete
RecognizedKeys ==
    {<<c>> : c \in Printables \cup {91, 65, 126}}
        \cup {<<BACKSPACE>>, <<CR>>, UP, DOWN, RIGHT, LEFT, DELETE}

\* the units of a sequence of keys, one after the other
RECURSIVE Flatten(_)
Flatten(ks) == IF ks = <<>> THEN <<>> ELSE Head(ks) \o Flatten(Tail(ks))

\* _getKey is called on a stream that is the concatenation of up to MaxKeys keys
InitDecoder ==
    /\ keysIn \in UNION {[1..n -> RecognizedKeys] : n \in 0..MaxKeys}
    /\ stream = Flatten(keysIn)
    /\ decoded = <<>>
    /\ k = <<>>
    /\ pc = "call"
    /\ lines = <<>>
    /\ line = <<>>
    /\ lineIdx = 0
    /\ charIdx = 0
    /\ used = FALSE
    /\ termMode = "cooked"
    /\ modeAtStart = "cooked"
    /\ outcome = "none"
    /\ retval = <<>>
    /\ excMsg = <<>>
    /\ excText = ""
    /\ written = <<>>
    /\ screen = <<>>
    /\ col = 0
    /\ away = FALSE
    /\ inProgress = <<>>
    /\ fresh = FALSE

\* _getKey reads the next unit of the stream and stays in its loop
GetKeyLoop ==
    /\ stream # <<>>
    /\ k' = NextK(Head(stream))
    /\ ~Returned(k')
    /\ stream' = Tail(stream)
    /\ UNCHANGED <<keysIn, decoded, lines, reader, pc, term, result, tty, hist, fresh>>

\* _getKey reads the next unit of the stream and returns k
GetKeyReturn ==
    /\ stream # <<>>
    /\ k' = NextK(Head(stream))
    /\ Returned(k')
    /\ stream' = Tail(stream)
    /\ decoded' = Append(decoded, k')
    /\ UNCHANGED <<keysIn, lines, reader, pc, term, result, tty, hist, fresh>>

NextDecoder == GetKeyLoop \/ GetKeyReturn

DecoderSpec == InitDecoder /\ [][NextDecoder]_vars

TypeOK ==
    /\ pc \in {"idle", "call"}
    /\ outcome \in {"none", "return", "KeyboardInterrupt", "EOFError", "Exception"}

\* ------------------------------------------------------------ claims
\* the step reads one raw unit and _getKey returns key with it
Pressed(key) ==
    /\ pc = "call"
    /\ k' = key
    /\ Len(key) > 1 => k = SubSeq(key, 1, Len(key) - 1)

\* clamp(v, lo, hi)
Clamp(v, lo, hi) == IF v < lo THEN lo ELSE IF v > hi THEN hi ELSE v

\* the index of the newest history entry (0-based)
Last == Len(lines) - 1

\* C1: in every session and after every processed key the cursor offset
\* satisfies 0 <= charIdx <= length(line)
C1_CursorInRange == 0 <= charIdx /\ charIdx <= Len(line)

\* ArrowLeft was the last key, the cursor is at 0 in a line of two characters
C1_Witness == pc = "call" /\ k = LEFT /\ charIdx = 0 /\ Len(line) = 2

C3_SessionsShareHistory ==
    [][ /\ (pc = "idle" /\ pc' = "call") =>
              /\ lines' = Append(lines, <<>>)
              /\ line' = <<>>
              /\ charIdx' = 0
              /\ lineIdx' = Len(lines') - 1
        /\ (fresh /\ outcome = "return" /\ Pressed(UP)) =>
              /\ line' = retval
              /\ lineIdx' = Len(lines) - 2
      ]_vars

\* a second session has shown the line "fo" of the first after one ArrowUp
C3_Witness ==
    /\ pc = "call"
    /\ k = UP
    /\ outcome = "return"
    /\ retval = <<102, 111>>
    /\ line = retval
    /\ Len(lines) = 2
    /\ lineIdx = 0
    /\ lines[2] = <<>>

\* C4: text typed at the newest index is back, with the cursor at its end,
\* when ArrowUp keys and then ArrowDown keys lead to the newest index again
C4_NavigationPreserves ==
    (away /\ lineIdx = Last) =>
        (line = inProgress /\ charIdx = Len(inProgress))

\* an ArrowUp left the text "fo" of the second session and an ArrowDown is back at it
C4_Witness ==
    /\ away
    /\ k = DOWN
    /\ Len(lines) = 2
    /\ lineIdx = 1
    /\ lines[1] = <<111>>
    /\ inProgress = <<102, 111>>

\* the effect of history navigation to index i: the buffer is the entry at i,
\* the cursor is at its end
ShowsEntry(i) ==
    /\ lineIdx' = i
    /\ line' = lines'[i + 1]
    /\ charIdx' = Len(lines'[i + 1])

\* C5: ArrowUp (ArrowDown) sets the active index to clamp(index - 1, 0, last)
\* (clamp(index + 1, 0, last)), replaces the buffer by the history entry at the
\* new index and puts the cursor at the end of that entry
C5_Navigation ==
    [][ /\ Pressed(UP) => ShowsEntry(Clamp(lineIdx - 1, 0, Last))
        /\ Pressed(DOWN) => ShowsEntry(Clamp(lineIdx + 1, 0, Last))
      ]_vars

\* history ["fo", ""], and ArrowUp from index 1 has given buffer "fo", cursor 2
C5_Witness ==
    /\ k = UP
    /\ away
    /\ lines = << <<102, 111>>, <<>> >>
    /\ lineIdx = 0
    /\ line = <<102, 111>>
    /\ charIdx = 2

\* ArrowUp at the oldest index, or ArrowDown at the newest
PastTheEnd == (Pressed(UP) /\ lineIdx = 0) \/ (Pressed(DOWN) /\ lineIdx = Last)

\* C6 as stated: navigation past either end leaves the active index, the buffer
\* text and the cursor unchanged in every reachable editing state
C6_Original ==
    [][ PastTheEnd => (lineIdx' = lineIdx /\ line' = line /\ charIdx' = charIdx) ]_vars

\* C6 amended: navigation past either end leaves the active index and the
\* history unchanged, reloads the buffer from the history entry at the active
\* index and puts the cursor at the end of the line
C6_PastTheEndReloads ==
    [][ PastTheEnd =>
          /\ lineIdx' = lineIdx
          /\ lines' = lines
          /\ line' = lines[lineIdx + 1]
          /\ charIdx' = Len(line')
      ]_vars

\* ArrowUp was pressed at index 0 after the viewed line had been edited: the
\* edit is in the newest entry, the buffer shows the old entry again
C6_Witness ==
    /\ k = UP
    /\ ~away
    /\ ~fresh
    /\ Len(lines) = 2
    /\ lineIdx = 0
    /\ lines[2] # lines[1]
    /\ lines[2] # <<>>
    /\ line = lines[1]

\* C7 as stated: whenever the interrupt byte is the next raw unit read in a
\* session, whatever was consumed before, the session ends with the cancellation
C7_InterruptCancels ==
    [][ (pc = "call" /\ k' = NextK(INTERRUPT)) =>
          (pc' = "idle" /\ outcome' = "KeyboardInterrupt") ]_vars

\* the value of hex digits
RECURSIVE HexValue(_)
HexValue(d) ==
    IF Len(d) = 1 THEN d[1]
    ELSE 16 * HexValue(SubSeq(d, 1, Len(d) - 1)) + d[Len(d)]

\* the characters an exception message of hex tokens names
Unhex(msg) == [i \in 1..Len(msg) |-> HexValue(msg[i])]

\* a complete well-formed escape sequence other than up, down, left, right, delete
UnknownEscape(s) == ESCAPE_SEQ(s) /\ s \notin {UP, DOWN, LEFT, RIGHT, DELETE}

\* the session ends without returning a line
EndsWithoutLine == pc' = "idle" /\ outcome' # "return" /\ retval' = retval

\* C8: Interrupt, EndOfInput and an unknown escape sequence end the session
\* with three distinct outcomes, none returns a line, and the decode error
\* carries the raw bytes of the sequence
C8_FailureOutcomes ==
    [][ pc = "call" =>
          /\ k' = <<INTERRUPT>> =>
                (outcome' = "KeyboardInterrupt" /\ EndsWithoutLine)
          /\ k' = <<EOF>> =>
                (outcome' = "EOFError" /\ EndsWithoutLine)
          /\ UnknownEscape(k') =>
                (outcome' = "Exception" /\ Unhex(excMsg') = k' /\ EndsWithoutLine)
      ]_vars

\* Home (ESC [ H) ended a session with the message 0x1b 0x5b 0x48
C8_Witness ==
    /\ pc = "idle"
    /\ outcome = "Exception"
    /\ k = <<27, 91, 72>>
    /\ excMsg = << <<1, 11>>, <<5, 11>>, <<4, 8>> >>

\* C9: after every exit of a session the terminal mode is the mode that was in
\* force before the session started, and it is not raw
C9_ModeRestored ==
    (pc = "idle" /\ outcome # "none") =>
        (termMode = modeAtStart /\ termMode # "raw")

\* a session has ended with a decode error after a session that was accepted
C9_Witness ==
    /\ pc = "idle"
    /\ outcome = "Exception"
    /\ Len(lines) = 2
    /\ termMode = "cbreak"

\* s may still grow into a well-formed escape sequence: ESC, or ESC [ with
\* parameter bytes and then intermediate bytes
ViablePrefix(s) ==
    /\ Len(s) >= 1
    /\ s[1] = ESCAPE
    /\ Len(s) >= 2 =>
          /\ s[2] = 91
          /\ \E p \in 2..Len(s) :
                /\ \A i \in 3..p : s[i] \in 48..63
                /\ \A i \in (p + 1)..Len(s) : s[i] \in 32..47

\* C10 as stated: a unit that completes or invalidates the pending escape
\* sequence makes the decoder emit a key, and the unit after it starts a new key
C10_Resynchronizes ==
    [][ pc = "call" =>
          /\ (InEscLoop(k) /\ ~ViablePrefix(k')) => ~InEscLoop(k')
          /\ (k # <<>> /\ ~ViablePrefix(k)) => Len(k') = 1
      ]_vars

\* C11 as stated: the carriage-return unit and the newline unit are both
\* Enter: either one, received as a key, ends the session with the buffer
\* returned, and neither is inserted into the buffer
C11_BothEnter ==
    [][ (pc = "call" /\ k' \in {<<CR>>, <<LF>>}) =>
            /\ pc' = "idle"
            /\ outcome' = "return"
            /\ retval' = line
            /\ line' = line
      ]_vars

\* the usage error of _use()
UsageError == "using line reader multiple times"

\* C12: a reader is single-use: read() called again on the reader whose read()
\* has ended (a step from idle that starts no new reader) fails with the usage
\* error, reads no key, writes nothing, and leaves the buffer, the cursor, the
\* active index and the history unchanged
C12_SingleUse ==
    [][ (pc = "idle" /\ used /\ Len(lines') = Len(lines)) =>
            /\ outcome' = "Exception"
            /\ excText' = UsageError
            /\ pc' = "idle"
            /\ k' = k
            /\ written' = <<>>
            /\ termMode' = termMode
            /\ UNCHANGED <<line, charIdx, lineIdx, lines>>
      ]_vars

\* read() was called again on a reader that had returned the line "f"
C12_Witness ==
    /\ pc = "idle"
    /\ outcome = "Exception"
    /\ excText = UsageError
    /\ retval = <<102>>
    /\ line = <<102>>
    /\ lines[Len(lines)] = <<102>>

\* s with c put in front of the character at 0-based position i
InsertAt(s, i, c) ==
    [j \in 1..(Len(s) + 1) |-> IF j <= i THEN s[j] ELSE IF j = i + 1 THEN c ELSE s[j - 1]]

\* s without the character at 0-based position i
RemoveAt(s, i) ==
    [j \in 1..(Len(s) - 1) |-> IF j <= i THEN s[j] ELSE s[j + 1]]

\* the key k is one the loop of read() hands to insertChar
IsPrintable(key) ==
    Len(key) = 1 /\ key[1] \notin {CR, BACKSPACE, INTERRUPT, EOF, ESCAPE}

\* C13: edits splice at the cursor: a printable c is inserted at the cursor and
\* the cursor advances by 1; Backspace removes the character at cursor - 1 and
\* decrements the cursor, and changes nothing at cursor 0; Delete removes the
\* character at the cursor and keeps the cursor, and changes nothing at the end
C13_Splice ==
    [][ pc = "call" =>
          /\ IsPrintable(k') =>
                (line' = InsertAt(line, charIdx, k'[1]) /\ charIdx' = charIdx + 1)
          /\ Pressed(<<BACKSPACE>>) =>
                IF charIdx = 0
                THEN line' = line /\ charIdx' = charIdx
                ELSE line' = RemoveAt(line, charIdx - 1) /\ charIdx' = charIdx - 1
          /\ Pressed(DELETE) =>
                IF charIdx = Len(line)
                THEN line' = line /\ charIdx' = charIdx
                ELSE line' = RemoveAt(line, charIdx) /\ charIdx' = charIdx
      ]_vars

\* "fo" was typed and Backspace has removed the "o": buffer "f", cursor 1
C13_Witness ==
    /\ pc = "call"
    /\ k = <<BACKSPACE>>
    /\ line = <<102>>
    /\ charIdx = 1
    /\ lineIdx = 0
    /\ lines = <<<<102>>>>

\* C14: ArrowLeft at cursor 0 and ArrowRight at the end of the line change
\* nothing: buffer, cursor, active index and history stay, and not one
\* character is written to the terminal
C14_EdgeMovesAreNoOps ==
    [][ ((Pressed(LEFT) /\ charIdx = 0) \/ (Pressed(RIGHT) /\ charIdx = Len(line))) =>
            /\ UNCHANGED <<line, charIdx, lineIdx, lines>>
            /\ written' = <<>>
            /\ UNCHANGED <<screen, col>>
      ]_vars

\* ArrowRight was pressed at the end of the line "f" and nothing was written
C14_Witness ==
    /\ pc = "call"
    /\ k = RIGHT
    /\ line = <<102>>
    /\ charIdx = 1
    /\ written = <<>>

\* C15: once a reader exists the active index satisfies
\* 0 <= lineIdx < len(lines), so lines[lineIdx] is always in range
C15_IndexInRange ==
    Len(lines) >= 1 => (0 <= lineIdx /\ lineIdx < Len(lines))

\* ArrowUp was pressed at index 0 of a history of two entries
C15_Witness ==
    /\ pc = "call"
    /\ k = UP
    /\ lineIdx = 0
    /\ Len(lines) = 2
    /\ away

\* the step processes a Printable, Backspace or Delete key
EditKey ==
    pc = "call" /\ (IsPrintable(k') \/ Pressed(<<BACKSPACE>>) \/ Pressed(DELETE))

SessionStart == pc = "idle" /\ pc' = "call"

KeyProcessed == pc = "call" /\ pc' = "call" /\ Returned(k')

\* the step is a Backspace at cursor 0 or a Delete at the end of the line
EditOfNothing ==
    \/ Pressed(<<BACKSPACE>>) /\ charIdx = 0
    \/ Pressed(DELETE) /\ charIdx = Len(line)

\* C18 as stated: after every processed key the terminal's row is
\* prompt + line and its column is len(prompt) + charIdx; ArrowLeft and
\* ArrowRight write only a relative motion, a key that edits the buffer or
\* navigates the history writes the line rewrite and then the move of
\* charIdx - len(line)
C18_Reconciled ==
    [][ KeyProcessed =>
          /\ screen' = prompt \o line'
          /\ col' = Len(prompt) + charIdx'
          /\ (Pressed(LEFT) \/ Pressed(RIGHT)) =>
                written' = _moveCursorRight(charIdx' - charIdx)
          /\ ~(Pressed(LEFT) \/ Pressed(RIGHT) \/ EditOfNothing) =>
                written' = _resetLine(prompt \o line')
                              \o _moveCursorRight(charIdx' - Len(line'))
      ]_vars

\* s is framed as one key: a single unit other than ESC, or a well-formed
\* escape sequence none of whose proper prefixes is one
FramedKey(s) ==
    \/ Len(s) = 1 /\ s[1] # ESCAPE
    \/ /\ s[1] = ESCAPE
       /\ ESCAPE_SEQ(s)
       /\ \A n \in 1..(Len(s) - 1) : ~ESCAPE_SEQ(SubSeq(s, 1, n))

\* C19: the decoder frames keys exactly and reads no unit too many: the units
\* of the keys returned, the units of the key being accumulated and the
\* units still unread are the input stream; every key returned is framed as
\* one key; the keys returned are the first keys of the original sequence,
\* and all of it once the stream is read
C19_ExactFraming ==
    /\ Flatten(decoded) \o (IF InEscLoop(k) THEN k ELSE <<>>) \o stream = Flatten(keysIn)
    /\ \A i \in 1..Len(decoded) : FramedKey(decoded[i])
    /\ Len(decoded) <= Len(keysIn)
    /\ decoded = SubSeq(keysIn, 1, Len(decoded))
    /\ stream = <<>> => decoded = keysIn

\* the stream Delete, "[", ArrowUp has been read and decoded as these three keys
C19_Witness ==
    /\ keysIn = <<DELETE, <<91>>, UP>>
    /\ stream = <<>>
    /\ decoded = <<DELETE, <<91>>, UP>>

\* C20: entries of earlier sessions are permanent: no step changes or removes
\* an entry below the newest; between sessions no entry changes, a new session
\* only appends; and a session that ends without returning a line leaves the
\* whole history, its own entry included, as its last edit stored it
C20_EarlierEntriesPermanent ==
    [][ /\ \A i \in 1..Len(lines) :
              (i < Len(lines) \/ pc = "idle") =>
                  (i <= Len(lines') /\ lines'[i] = lines[i])
        /\ (pc = "call" /\ pc' = "idle" /\ outcome' # "return") => lines' = lines
      ]_vars

\* the first session typed "f" and was cancelled, the second session has
\* typed "o": the cancelled session's text is still entry 0
C20_Witness ==
    /\ pc = "call"
    /\ outcome = "KeyboardInterrupt"
    /\ line = <<111>>
    /\ lines = << <<102>>, <<111>> >>

====
